---- MODULE Spec2Model ----
(***************************************************************************)
(* Model of terraform-provider-utilities: the http resource               *)
(* (modelV0.read, the retrying fetch; makeCustomRetryPolicy; the handlers *)
(* of httpResource that invoke it), the per-fetch clone of the            *)
(* process-wide transport, the file resource and the nanoid resource.     *)
(*                                                                         *)
(* Optional (nullable) attribute values are sets with at most one         *)
(* element: {} is null, {v} is the value v.                                *)
(***************************************************************************)
EXTENDS Integers, FiniteSets, Sequences, TLC

VARIABLES
    op,           \* lifecycle handler in progress or last run: "none", "Create", "Update"
    ops,          \* number of handlers started so far
    state,        \* persisted resource state (resp.State): {} or {model}
    model,        \* the handler's httpResourceModel value
    diags,        \* resp.Diagnostics of the handler: a set of diagnostics
    pc,           \* position inside the handler / modelV0.read / Client.Do
    ctxDone,      \* the calling context is done (cancelled): ctx.Err() != nil
    attempt,      \* Client.Do: attempt counter (calls of HTTPClient.Do)
    resp,         \* Client.Do: resp of the last attempt, {} when nil
    doErr,        \* Client.Do: doErr of the last attempt, {} when nil
    shouldRetry,  \* Client.Do: last answer of CheckRetry
    checkErr,     \* Client.Do: last error of CheckRetry, {} when nil
    wait,         \* Client.Do: delay computed by Backoff for the last retry ({} = none yet)
    netCalls,     \* history: requests actually sent to the network by this fetch
    hist,         \* history: what all attempts of this fetch so far have in common
    model0,       \* history: the model as the handler decoded it, before read
    plan,         \* history: the planned configuration the handler was called for
    request,      \* the *retryablehttp.Request read built, {} when it built none
    transports,   \* heap of http.Transport values; address 0 is http.DefaultTransport
    tlsConfigs,   \* heap of tls.Config values; address 0 is the default transport's
    fetch,        \* concurrent calls of modelV0.read: position, TLS attributes, clonedTr
    fileState,    \* file resource: persisted state, {} or {FileResourceModel}
    fileDiags,    \* file resource: resp.Diagnostics of the last handler
    fileOp,       \* file resource: last handler run
    fileOps,      \* file resource: number of handlers run
    fileGets,     \* file resource, history: calls of http.Get so far
    fileCreated,  \* file resource, history: the state the last Create stored
    filePlan,     \* file resource, history: the configuration of the last Update
    nanoState,    \* nanoid resource: persisted state, {} or {NanoIdResourceModel}
    nanoImported, \* nanoid resource: the state ImportState produced, {} when none
    nanoDiags,    \* nanoid resource: resp.Diagnostics of the last handler
    nanoOp,       \* nanoid resource: last handler run
    nanoOps,      \* nanoid resource: number of handlers run
    nanoConfig    \* nanoid resource, history: the configuration of the Create that
                  \* stored the resource, {} when there is none

httpVars == <<op, ops, state, model, diags, pc, ctxDone, attempt, resp, doErr,
              shouldRetry, checkErr, wait, netCalls, hist, model0, plan, request>>
transportVars == <<transports, tlsConfigs, fetch>>
fileVars == <<fileState, fileDiags, fileOp, fileOps, fileGets, fileCreated, filePlan>>
nanoVars == <<nanoState, nanoImported, nanoDiags, nanoOp, nanoOps, nanoConfig>>
outsideHttp == <<transportVars, fileVars, nanoVars>>
vars == <<httpVars, transportVars, fileVars, nanoVars>>

-----------------------------------------------------------------------------
(* Bounds of the explored inputs *)

MaxAttempts == 2      \* largest retry.attempts value explored
MaxOps == 2           \* handlers (Create, Update) run in one behaviour
NumFetches == 2       \* calls of modelV0.read running concurrently
MaxSends == 2         \* HTTP attempts of one concurrent call
MaxFileOps == 4       \* handlers of the file resource run in one behaviour
MaxNanoOps == 3       \* handlers of the nanoid resource run in one behaviour

(* Defaults of retryablehttp.NewClient(), in milliseconds / count *)
defaultRetryWaitMin == 1000
defaultRetryWaitMax == 30000
defaultRetryMax == 4

-----------------------------------------------------------------------------
(* Nullable values *)

Null == {}
IsNull(v) == v = {}
Val(v) == CHOOSE x \in v : TRUE
ValueInt64(v) == IF v = {} THEN 0 ELSE Val(v)

-----------------------------------------------------------------------------
(* Plans: what the plan modifiers of a schema make of a changed configuration *)

\* the configurable attributes whose configured value differs from the state's
ChangedAttrs(schema, prior, cfg) == {a \in schema.configurable : cfg[a] # prior[a]}

\* RequiresReplace marks every change of its attribute, and
\* RequiresReplaceIfConfigured every change to a configured (non-null) value
RequiresReplacement(schema, prior, cfg) ==
    \E a \in ChangedAttrs(schema, prior, cfg) :
        \/ a \in schema.requiresReplace
        \/ a \in schema.requiresReplaceIfConfigured /\ ~IsNull(cfg[a])

\* the operation planned for an existing resource: none, an in-place update
\* (the Update handler), or a replacement (Delete, then Create)
PlannedAction(schema, prior, cfg) ==
    IF ChangedAttrs(schema, prior, cfg) = {} THEN "none"
    ELSE IF RequiresReplacement(schema, prior, cfg) THEN "replace"
    ELSE "update"

-----------------------------------------------------------------------------
(* Inputs: configurations accepted by httpResource.Schema *)

\* retry block: attempts >= 0, min_delay_ms >= 0, max_delay_ms >= 0 and
\* max_delay_ms >= min_delay_ms when both are given; every attribute optional.
AttemptsValues == {Null} \cup {{n} : n \in 0..MaxAttempts}
MinDelayValues == {Null, {0}, {500}, {60000}}
MaxDelayValues == {Null, {500}, {1500}}

RetryValid(r) ==
    /\ (~IsNull(r.attempts) => Val(r.attempts) >= 0)
    /\ (~IsNull(r.min_delay_ms) => Val(r.min_delay_ms) >= 0)
    /\ (~IsNull(r.max_delay_ms) =>
            Val(r.max_delay_ms) >= 0 /\ Val(r.max_delay_ms) >= ValueInt64(r.min_delay_ms))

\* The retry blocks explored: every attempts value without delays, and every
\* valid pair of delays with the largest attempts value.
RetryValues ==
    {Null} \cup
    {{r} : r \in {x \in [attempts : AttemptsValues, min_delay_ms : MinDelayValues,
                         max_delay_ms : MaxDelayValues] :
                    /\ RetryValid(x)
                    /\ \/ IsNull(x.min_delay_ms) /\ IsNull(x.max_delay_ms)
                       \/ x.attempts = {MaxAttempts}}}

\* success_status_codes (a list in the source; only membership and emptiness are used)
SuccessCodeValues == {{}, {201}, {200, 503}}

\* ca_cert_pem and the client_cert_pem / client_key_pem pair (AlsoRequires makes
\* the two client attributes present together): what the PEM parsers make of them
TLSValues ==
    { [ca_cert_pem |-> {},          client_pair |-> {}],
      [ca_cert_pem |-> {"pem"},     client_pair |-> {"valid"}],
      [ca_cert_pem |-> {"garbage"}, client_pair |-> {}],
      [ca_cert_pem |-> {"garbage"}, client_pair |-> {"invalid"}],
      [ca_cert_pem |-> {},          client_pair |-> {"invalid"}],
      [ca_cert_pem |-> {"pem"},     client_pair |-> {"invalid"}] }

\* url: two URLs that parse, and one that url.Parse rejects
ValidUrls == {"https://a.example/x", "https://b.example/x"}
HttpUrls == ValidUrls \cup {"https://a.example/%zz"}

\* request_headers: a map, here the set of its entries; a null element value
\* is one that tfsdk.ValueAs cannot put into a string
Header(name, value) == [name |-> name, value |-> value]
HeaderMaps ==
    { {},
      {Header("Host", {"v.example"})},
      {Header("HOST", {"v.example"})},
      {Header("X-Token", {"t1"})},
      {Header("Host", {"v.example"}), Header("X-Token", {"t1"})},
      {Header("Host", {"v.example"}), Header("HOST", {"w.example"})},
      {Header("X-Token", {"t1"}), Header("x-token", {"t2"})},
      {Header("X-Token", Null)} }

\* modelV0 as decoded from a configuration: computed attributes are null.
\* success_status_codes holds the non-null elements of the list, and
\* success_status_codes_has_null tells whether the list has a null element.
\* The attributes this constructor does not take are the same in all the
\* configurations built with it.
ConfigModel(r, codes, t) ==
    [ retry |-> r, success_status_codes |-> codes, success_status_codes_has_null |-> FALSE,
      ca_cert_pem |-> t.ca_cert_pem, client_pair |-> t.client_pair,
      url |-> {"https://a.example/x"}, method |-> Null, request_headers |-> {},
      request_body |-> Null, keepers |-> Null,
      id |-> Null, response_body |-> Null, status_code |-> Null ]

Configs == {ConfigModel(r, c, t) : r \in RetryValues, c \in SuccessCodeValues, t \in TLSValues}

\* Configurations that vary the request: headers and url; a url that does not
\* parse; a success_status_codes list with a null element, without and with a
\* header; method and body; keepers; one retry; unusable TLS material
BaseConfig == ConfigModel(Null, {}, [ca_cert_pem |-> Null, client_pair |-> Null])
RequestConfigs ==
    {[BaseConfig EXCEPT !.request_headers = h, !.url = {u}] : h \in HeaderMaps, u \in ValidUrls}
    \cup {[BaseConfig EXCEPT !.url = {u}] : u \in HttpUrls \ ValidUrls}
    \cup {[BaseConfig EXCEPT !.success_status_codes = {201},
                             !.success_status_codes_has_null = TRUE,
                             !.request_headers = h] :
              h \in {{}, {Header("X-Token", {"t1"})}}}
    \cup {[BaseConfig EXCEPT !.method = {"POST"}, !.request_body = {"q=1"}]}
    \cup {[BaseConfig EXCEPT !.keepers = {"k1"}]}
    \cup {[BaseConfig EXCEPT !.success_status_codes = {201},
                             !.retry = {[attempts |-> {1}, min_delay_ms |-> Null,
                                         max_delay_ms |-> Null]}]}
    \cup {[BaseConfig EXCEPT !.ca_cert_pem = {"garbage"}]}

\* The plan modifiers of httpResource.Schema: keepers alone carries one
HttpSchema ==
    [configurable |-> {"url", "method", "request_headers", "request_body", "keepers",
                       "retry", "success_status_codes", "success_status_codes_has_null",
                       "ca_cert_pem", "client_pair"},
     requiresReplace |-> {},
     requiresReplaceIfConfigured |-> {"keepers"}]

\* the configuration a state was made from, and the changed configurations
\* explored for an existing resource: another url, other keepers
ConfigOf(m) == [m EXCEPT !.id = Null, !.response_body = Null, !.status_code = Null]
Reconfigurations(m) ==
    {[ConfigOf(m) EXCEPT !.url = {u}] : u \in ValidUrls}
    \cup {[ConfigOf(m) EXCEPT !.keepers = k] : k \in {Null, {"k1"}, {"k2"}}}

(* Inputs: what the network answers to one attempt *)
Statuses == {200, 201, 429, 501, 503}
RetryAfterValues == {Null, {7000}}

Response(st, ra) == [status |-> st, retry_after |-> ra]
\* a Retry-After header is explored on the statuses whose backoff reads it
Responses ==
    {Response(st, Null) : st \in Statuses} \cup
    {Response(st, ra) : st \in {429, 503}, ra \in RetryAfterValues}

\* transport errors of HTTPClient.Do (all *url.Error): a refused connection, a
\* redirect loop, a timeout, and the error of a cancelled context
TransportErrors == {"conn", "redirects", "timeout"}
CanceledErr == "context canceled"

\* a diagnostic: severity, summary, the kind of detail text, and the error the
\* detail reports ({} when it reports none)
Diag(sev, summary, detail, cause) ==
    [severity |-> sev, summary |-> summary, detail |-> detail, cause |-> cause]
HasError(ds) == \E d \in ds : d.severity = "error"

-----------------------------------------------------------------------------
(* The retry policy *)

Decision(retry, err) == [retry |-> retry, err |-> err]

\* retryablehttp's baseline classification of one attempt: retry on a transport
\* error unless it is known not to be recoverable (redirect loop, bad scheme,
\* untrusted certificate), on 429, and on 5xx except 501 (and on status 0).
baseRetryPolicy(rsp, err) ==
    IF ~IsNull(err) THEN Val(err) # "redirects"
    ELSE LET st == Val(rsp).status IN
         \/ st = 429
         \/ st = 0
         \/ (st >= 500 /\ st # 501)

\* retryablehttp.DefaultRetryPolicy as called on line 110: it stops on a done
\* context and otherwise answers the baseline without propagating an error.
DefaultRetryPolicy(ctxErr, rsp, err) ==
    IF ctxErr THEN Decision(FALSE, {CanceledErr})
    ELSE Decision(baseRetryPolicy(rsp, err), Null)

\* (mutation) the empty list is not answered by the baseline; it reaches the loop
PolicyWithoutEmptyCase(successStatusCodes, ctxErr, rsp, err) ==
    IF ctxErr THEN Decision(FALSE, {CanceledErr})
    ELSE LET d == DefaultRetryPolicy(ctxErr, rsp, err) IN
         IF ~d.retry /\ ~IsNull(d.err) THEN Decision(FALSE, d.err)
         ELSE IF ~IsNull(err) THEN Decision(TRUE, Null)
         ELSE IF Val(rsp).status \in successStatusCodes THEN Decision(FALSE, Null)
         ELSE Decision(TRUE, {"unexpected HTTP status"})

\* (mutation) a status outside the list is left to the baseline
PolicyBaselineOutsideList(successStatusCodes, ctxErr, rsp, err) ==
    IF ctxErr THEN Decision(FALSE, {CanceledErr})
    ELSE LET d == DefaultRetryPolicy(ctxErr, rsp, err) IN
         IF ~d.retry /\ ~IsNull(d.err) THEN Decision(FALSE, d.err)
         ELSE IF ~IsNull(err) THEN Decision(TRUE, Null)
         ELSE IF Cardinality(successStatusCodes) = 0 THEN d
         ELSE IF Val(rsp).status \in successStatusCodes THEN Decision(FALSE, Null)
         ELSE d

\* (mutation) a retry of the baseline is answered before the list is consulted
PolicyBaselineRetryFirst(successStatusCodes, ctxErr, rsp, err) ==
    IF ctxErr THEN Decision(FALSE, {CanceledErr})
    ELSE LET d == DefaultRetryPolicy(ctxErr, rsp, err) IN
         IF ~d.retry /\ ~IsNull(d.err) THEN Decision(FALSE, d.err)
         ELSE IF ~IsNull(err) \/ d.retry THEN Decision(TRUE, Null)
         ELSE IF Cardinality(successStatusCodes) = 0 THEN d
         ELSE IF Val(rsp).status \in successStatusCodes THEN Decision(FALSE, Null)
         ELSE Decision(TRUE, {"unexpected HTTP status"})

\* (mutation) the transport error is answered before the context is looked at
PolicyTransportErrorFirst(successStatusCodes, ctxErr, rsp, err) ==
    IF ~IsNull(err) THEN Decision(TRUE, Null)
    ELSE IF ctxErr THEN Decision(FALSE, {CanceledErr})
    ELSE LET d == DefaultRetryPolicy(ctxErr, rsp, err) IN
         IF ~d.retry /\ ~IsNull(d.err) THEN Decision(FALSE, d.err)
         ELSE IF Cardinality(successStatusCodes) = 0 THEN d
         ELSE IF Val(rsp).status \in successStatusCodes THEN Decision(FALSE, Null)
         ELSE Decision(TRUE, {"unexpected HTTP status"})

\* (mutation) a transport error is answered as the baseline answers it
PolicyBaselineOnTransportError(successStatusCodes, ctxErr, rsp, err) ==
    IF ctxErr THEN Decision(FALSE, {CanceledErr})
    ELSE LET d == DefaultRetryPolicy(ctxErr, rsp, err) IN
         IF ~d.retry /\ ~IsNull(d.err) THEN Decision(FALSE, d.err)
         ELSE IF ~IsNull(err) THEN d
         ELSE IF Cardinality(successStatusCodes) = 0 THEN d
         ELSE IF Val(rsp).status \in successStatusCodes THEN Decision(FALSE, Null)
         ELSE Decision(TRUE, {"unexpected HTTP status"})

\* makeCustomRetryPolicy(successStatusCodes)(ctx, resp, err)
makeCustomRetryPolicy(successStatusCodes, ctxErr, rsp, err) ==
    IF ctxErr THEN Decision(FALSE, {CanceledErr})
    ELSE LET d == DefaultRetryPolicy(ctxErr, rsp, err) IN
         IF ~d.retry /\ ~IsNull(d.err) THEN Decision(FALSE, d.err)
         ELSE IF ~IsNull(err) THEN Decision(TRUE, Null)
         ELSE IF Cardinality(successStatusCodes) = 0 THEN d
         ELSE IF Val(rsp).status \in successStatusCodes THEN Decision(FALSE, Null)
         ELSE Decision(TRUE, {"unexpected HTTP status"})

-----------------------------------------------------------------------------
(* The retrying client configured by modelV0.read *)

\* var retry retryModel, filled by model.Retry.As when the block is present;
\* the zero retryModel has null attributes.
retryModel(m) ==
    IF IsNull(m.retry) THEN [attempts |-> Null, min_delay_ms |-> Null, max_delay_ms |-> Null]
    ELSE Val(m.retry)

\* (mutation) RetryMax is left at the default of NewClient()
RetryMaxLeftAtDefault(m) == defaultRetryMax

\* (mutation) attempts is taken as the number of tries the loop adds to
RetryMaxOneMore(m) == ValueInt64(retryModel(m).attempts) + 1

\* retryClient.RetryMax = int(retry.Attempts.ValueInt64())
RetryMax(m) == ValueInt64(retryModel(m).attempts)

\* retryClient.RetryWaitMin / RetryWaitMax: the configured value, else NewClient's default
RetryWaitMin(m) ==
    LET v == retryModel(m).min_delay_ms IN
    IF ~IsNull(v) /\ Val(v) >= 0 THEN Val(v) ELSE defaultRetryWaitMin

RetryWaitMax(m) ==
    LET v == retryModel(m).max_delay_ms IN
    IF ~IsNull(v) /\ Val(v) >= 0 THEN Val(v) ELSE defaultRetryWaitMax

RECURSIVE Pow2(_)
Pow2(n) == IF n = 0 THEN 1 ELSE 2 * Pow2(n - 1)

\* retryablehttp.DefaultBackoff(min, max, attemptNum, resp), the Backoff of
\* NewClient(): a Retry-After header of a 429 or 503 response is obeyed as it
\* is; otherwise min * 2^attemptNum, replaced by max when it exceeds max.
DefaultBackoff(min, max, attemptNum, rsp) ==
    IF /\ ~IsNull(rsp)
       /\ Val(rsp).status \in {429, 503}
       /\ ~IsNull(Val(rsp).retry_after)
    THEN Val(Val(rsp).retry_after)
    ELSE LET sleep == Pow2(attemptNum) * min IN
         IF sleep > max THEN max ELSE sleep

\* (mutation) the result of AppendCertsFromPEM is not checked
TLSDiagnosticWithoutCACheck(m) ==
    IF ~IsNull(m.client_pair) /\ Val(m.client_pair) # "valid"
    THEN {Diag("error", "error creating x509 key pair", "client_pair", Null)}
    ELSE {}

\* Transport construction of modelV0.read: the diagnostic it ends with, {} when
\* the TLS client configuration was built.
TLSDiagnostic(m) ==
    IF ~IsNull(m.ca_cert_pem) /\ Val(m.ca_cert_pem) # "pem"
    THEN {Diag("error", "Error configuring TLS client", "ca_cert_pem", Null)}
    ELSE IF ~IsNull(m.client_pair) /\ Val(m.client_pair) # "valid"
    THEN {Diag("error", "error creating x509 key pair", "client_pair", Null)}
    ELSE {}

\* var successStatusCodes []int after ElementsAs: a list with a null element
\* is not converted, and the slice stays nil
successStatusCodes(m) ==
    IF m.success_status_codes_has_null THEN {} ELSE m.success_status_codes

\* the diagnostics of ElementsAs on success_status_codes
SuccessStatusCodesDiagnostics(m) ==
    IF m.success_status_codes_has_null
    THEN {Diag("error", "Value Conversion Error", "success_status_codes", Null)}
    ELSE {}

\* url.Parse as NewRequestWithContext uses it: the host of the URL, {} when
\* the URL does not parse
URLHost(u) ==
    IF u = "https://a.example/x" THEN {"a.example"}
    ELSE IF u = "https://b.example/x" THEN {"b.example"}
    ELSE Null

\* textproto.CanonicalMIMEHeaderKey, the key http.Header.Set stores under
CanonicalMIMEHeaderKey(name) ==
    IF name \in {"Host", "HOST", "host"} THEN "Host"
    ELSE IF name \in {"X-Token", "x-token", "X-TOKEN"} THEN "X-Token"
    ELSE name

\* strings.ToLower
ToLower(name) ==
    IF name \in {"Host", "HOST", "host"} THEN "host"
    ELSE IF name \in {"X-Token", "x-token", "X-TOKEN"} THEN "x-token"
    ELSE name

\* (mutation) only the spelling "Host" overrides the host
IsHostHeaderExactSpelling(name) == name = "Host"

\* strings.ToLower(name) == "host"
IsHostHeader(name) == ToLower(name) = "host"

\* retryablehttp.NewRequestWithContext(ctx, method, requestURL, nil) and
\* SetBody: the request's Host is the URL's, the header is empty
NewRequest(m) ==
    [method |-> IF IsNull(m.method) THEN "GET" ELSE Val(m.method),
     url |-> Val(m.url),
     host |-> Val(URLHost(Val(m.url))),
     header |-> {},
     body |-> m.request_body]

\* request.Header.Set(name, header), and request.Host for a host header
SetHeader(req, name, value) ==
    [req EXCEPT !.header = {h \in @ : h.name # CanonicalMIMEHeaderKey(name)}
                             \cup {Header(CanonicalMIMEHeaderKey(name), {value})},
                !.host = IF IsHostHeader(name) THEN value ELSE @]

\* the orders in which range can visit the entries of a map
Orders(entries) ==
    {o \in [1..Cardinality(entries) -> entries] : \A x \in entries : \E i \in DOMAIN o : o[i] = x}

\* the loop over requestHeaders.Elements() in the order o, from its i-th
\* entry on: what read has when the loop ends or returns
RECURSIVE ApplyHeaders(_, _, _, _)
ApplyHeaders(req, o, i, ds) ==
    IF i > Len(o) THEN [diags |-> ds, returned |-> FALSE, request |-> {req}]
    ELSE LET ds2 == ds \cup (IF IsNull(o[i].value)
                             THEN {Diag("error", "Value Conversion Error", "request_headers", Null)}
                             ELSE {})
         IN IF HasError(ds2) THEN [diags |-> ds2, returned |-> TRUE, request |-> Null]
            ELSE ApplyHeaders(SetHeader(req, o[i].name, Val(o[i].value)), o, i + 1, ds2)

\* modelV0.read up to retryClient.Do, with the map visited in the order o:
\* the diagnostics, whether read has returned, and the request
BuildRequest(m, o) ==
    IF TLSDiagnostic(m) # {}
    THEN [diags |-> TLSDiagnostic(m), returned |-> TRUE, request |-> Null]
    ELSE LET ds == SuccessStatusCodesDiagnostics(m) IN
         IF IsNull(URLHost(Val(m.url)))
         THEN [diags |-> ds \cup {Diag("error", "Error creating request", "url", Null)},
               returned |-> TRUE, request |-> Null]
         ELSE ApplyHeaders(NewRequest(m), o, 1, ds)

\* The diagnostic modelV0.read adds when retryClient.Do returns err: a
\* *url.Error in err's chain whose Timeout() holds gives the timeout detail.
DoErrorDiagnostic(e) ==
    Diag("error", "Error making request",
         IF e.urlTimeout THEN "timeout error" ELSE "Error making request", e.cause)

\* The error Client.Do returns after the loop when the attempt was no success
GiveUpError(cErr, dErr) ==
    [givingUp |-> TRUE,
     cause |-> IF ~IsNull(cErr) THEN cErr ELSE dErr,
     urlTimeout |-> IsNull(cErr) /\ dErr = {"timeout"}]

\* The error Client.Do returns when the context ends during the backoff sleep
CtxError == [givingUp |-> FALSE, cause |-> {CanceledErr}, urlTimeout |-> FALSE]

-----------------------------------------------------------------------------
(* State machine *)

\* History of a fetch: the statuses of the responses its attempts received so
\* far, and whether some attempt ended in a transport error
NoHistory == [statuses |-> {}, transportErr |-> FALSE]
Record(h, rsp, err) ==
    [statuses |-> h.statuses \cup (IF IsNull(rsp) THEN {} ELSE {Val(rsp).status}),
     transportErr |-> h.transportErr \/ ~IsNull(err)]

ZeroModel == ConfigModel(Null, {}, [ca_cert_pem |-> Null, client_pair |-> Null])

HttpInit ==
    /\ op = "none"
    /\ ops = 0
    /\ state = Null
    /\ model = ZeroModel
    /\ diags = {}
    /\ pc = "idle"
    /\ ctxDone = FALSE
    /\ attempt = 0
    /\ resp = Null
    /\ doErr = Null
    /\ shouldRetry = FALSE
    /\ checkErr = Null
    /\ wait = Null
    /\ netCalls = 0
    /\ hist = NoHistory
    /\ model0 = ZeroModel
    /\ plan = Null
    /\ request = Null

\* resp.State.Set(ctx, model) followed by the handler's return
SetStateAndReturn(m) ==
    /\ state' = {m}
    /\ pc' = "done"

\* A handler starts modelV0.read on m with fresh diagnostics: the part of read
\* up to retryClient.Do (transport and TLS, retry block, client, request,
\* headers). Where read returns, the handler stores the model.
StartRead(name, m) ==
    /\ op' = name
    /\ ops' = ops + 1
    /\ model' = m
    /\ ctxDone' = FALSE
    /\ attempt' = 0
    /\ resp' = Null
    /\ doErr' = Null
    /\ shouldRetry' = FALSE
    /\ checkErr' = Null
    /\ wait' = Null
    /\ netCalls' = 0
    /\ hist' = NoHistory
    /\ model0' = m
    /\ \E o \in Orders(m.request_headers) :
          LET r == BuildRequest(m, o) IN
          /\ diags' = r.diags
          /\ request' = r.request
          /\ IF r.returned
             THEN SetStateAndReturn(m)
             ELSE pc' = "do" /\ UNCHANGED state
    /\ UNCHANGED outsideHttp

\* httpResource.Create for a configuration of cfgs: the model is read from
\* the configuration
CreateFrom(cfgs) ==
    /\ pc = "idle"
    /\ ops < MaxOps
    /\ \E cfg \in cfgs :
          /\ plan' = {cfg}
          /\ StartRead("Create", cfg)

Create == CreateFrom(Configs)
CreateRequest == CreateFrom(RequestConfigs)

\* a resource whose Create ended with an error diagnostic is stored tainted:
\* it is replaced, never updated
Tainted == op = "Create" /\ HasError(diags)

\* httpResource.Update, run for a changed configuration that needs no
\* replacement: the model is read from the prior state
Update ==
    /\ pc = "done"
    /\ ~IsNull(state)
    /\ ~Tainted
    /\ ops < MaxOps
    /\ \E cfg \in Reconfigurations(Val(state)) :
          /\ PlannedAction(HttpSchema, Val(state), cfg) = "update"
          /\ plan' = {cfg}
          /\ StartRead("Update", Val(state))

\* httpResource.Delete (a destroy, or the first half of a replacement): no
\* diagnostic, so the framework removes the resource from the state
Delete ==
    /\ pc = "done"
    /\ ~IsNull(state)
    /\ ops < MaxOps
    /\ op' = "Delete"
    /\ ops' = ops + 1
    /\ state' = Null
    /\ pc' = "idle"
    /\ model' = ZeroModel
    /\ model0' = ZeroModel
    /\ diags' = {}
    /\ ctxDone' = FALSE
    /\ attempt' = 0
    /\ resp' = Null
    /\ doErr' = Null
    /\ shouldRetry' = FALSE
    /\ checkErr' = Null
    /\ wait' = Null
    /\ netCalls' = 0
    /\ hist' = NoHistory
    /\ plan' = Null
    /\ request' = Null
    /\ UNCHANGED outsideHttp

\* Client.Do, one pass of the loop up to CheckRetry: attempt++ and
\* HTTPClient.Do. With a done context the transport sends nothing and
\* returns the context's error.
HttpDo ==
    /\ pc = "do"
    /\ attempt' = attempt + 1
    /\ IF ctxDone
       THEN /\ resp' = Null
            /\ doErr' = {CanceledErr}
            /\ netCalls' = netCalls
       ELSE /\ \/ \E r \in Responses : resp' = {r} /\ doErr' = Null
               \/ \E e \in TransportErrors : resp' = Null /\ doErr' = {e}
            /\ netCalls' = netCalls + 1
    /\ hist' = Record(hist, resp', doErr')
    /\ pc' = "check"
    /\ UNCHANGED <<op, ops, state, model, diags, ctxDone, shouldRetry, checkErr, wait, model0>>
    /\ UNCHANGED <<plan, request, outsideHttp>>

\* Client.Do, the rest of the pass: CheckRetry, then either the backoff is
\* computed and the sleep starts, or the loop ends and Do returns; on an error
\* of Do, read adds the diagnostic and the handler stores the model.
CheckRetry ==
    /\ pc = "check"
    /\ LET d == makeCustomRetryPolicy(successStatusCodes(model), ctxDone, resp, doErr)
           i == attempt - 1
           remain == RetryMax(model) - i
       IN /\ shouldRetry' = d.retry
          /\ checkErr' = d.err
          /\ IF d.retry /\ remain > 0
             THEN /\ wait' = {DefaultBackoff(RetryWaitMin(model), RetryWaitMax(model), i, resp)}
                  /\ pc' = "backoff"
                  /\ UNCHANGED <<state, diags>>
             ELSE /\ UNCHANGED wait
                  /\ IF IsNull(doErr) /\ IsNull(d.err) /\ ~d.retry
                     THEN pc' = "body" /\ UNCHANGED <<state, diags>>
                     ELSE /\ diags' = diags \cup {DoErrorDiagnostic(GiveUpError(d.err, doErr))}
                          /\ SetStateAndReturn(model)
    /\ UNCHANGED <<op, ops, model, ctxDone, attempt, resp, doErr, netCalls, hist, model0>>
    /\ UNCHANGED <<plan, request, outsideHttp>>

\* Client.Do: the backoff timer fires and the loop starts its next pass
BackoffTimer ==
    /\ pc = "backoff"
    /\ pc' = "do"
    /\ UNCHANGED <<op, ops, state, model, diags, ctxDone, attempt, resp, doErr,
                   shouldRetry, checkErr, wait, netCalls, hist, model0>>
    /\ UNCHANGED <<plan, request, outsideHttp>>

\* Client.Do: the context is done during the backoff sleep; Do returns ctx.Err()
BackoffCancelled ==
    /\ pc = "backoff"
    /\ ctxDone
    /\ diags' = diags \cup {DoErrorDiagnostic(CtxError)}
    /\ SetStateAndReturn(model)
    /\ UNCHANGED <<op, ops, model, ctxDone, attempt, resp, doErr,
                   shouldRetry, checkErr, wait, netCalls, hist, model0>>
    /\ UNCHANGED <<plan, request, outsideHttp>>

\* what io.ReadAll yields: valid UTF-8 bytes, other bytes, or an error
Bodies == {"utf8", "binary", "unreadable"}

\* modelV0.read after Do returned a response: io.ReadAll, the UTF-8 warning,
\* the outputs unless an error diagnostic is present; then the handler stores
\* the model.
ReadBody ==
    /\ pc = "body"
    /\ \E b \in Bodies :
         IF b = "unreadable"
         THEN /\ diags' = diags \cup {Diag("error", "Error reading response body", "read", Null)}
              /\ model' = model
              /\ SetStateAndReturn(model)
         ELSE /\ diags' = diags \cup
                    (IF b = "binary"
                     THEN {Diag("warning", "Response body is not recognized as UTF-8", "binary", Null)}
                     ELSE {})
              /\ model' = IF HasError(diags') THEN model
                          ELSE [model EXCEPT !.id = model.url,
                                             !.response_body = {"bytes"},
                                             !.status_code = {Val(resp).status}]
              /\ SetStateAndReturn(model')
    /\ UNCHANGED <<op, ops, ctxDone, attempt, resp, doErr,
                   shouldRetry, checkErr, wait, netCalls, hist, model0>>
    /\ UNCHANGED <<plan, request, outsideHttp>>

\* The caller cancels the context while the fetch is in progress
Cancel ==
    /\ pc \in {"do", "check", "backoff", "body"}
    /\ ~ctxDone
    /\ ctxDone' = TRUE
    /\ UNCHANGED <<op, ops, state, model, diags, pc, attempt, resp, doErr,
                   shouldRetry, checkErr, wait, netCalls, hist, model0>>
    /\ UNCHANGED <<plan, request, outsideHttp>>

Next ==
    \/ Create
    \/ Update
    \/ Delete
    \/ HttpDo
    \/ CheckRetry
    \/ BackoffTimer
    \/ BackoffCancelled
    \/ ReadBody
    \/ Cancel

NextRequest ==
    \/ CreateRequest
    \/ Update
    \/ Delete
    \/ HttpDo
    \/ CheckRetry
    \/ BackoffTimer
    \/ BackoffCancelled
    \/ ReadBody
    \/ Cancel

-----------------------------------------------------------------------------
(* The process-wide transport and its per-fetch clone (modelV0.read, the      *)
(* part before the request), for calls of read that run concurrently         *)

Fetchers == 1..NumFetches
DefaultAddr == 0
Addrs == {DefaultAddr} \cup Fetchers

\* the zero tls.Config: certificates verified against the system roots, no
\* client certificate
ZeroTLSConfig == [InsecureSkipVerify |-> FALSE, RootCAs |-> Null, Certificates |-> Null]

\* a Transport that no call has allocated yet, and http.DefaultTransport as
\* the process starts with it: a *http.Transport (nothing in the provider
\* replaces it, so the type assertion of read succeeds) whose TLSClientConfig
\* is nil
NoTransport == [allocated |-> FALSE, TLSClientConfig |-> Null]
InitialDefaultTransport == [allocated |-> TRUE, TLSClientConfig |-> Null]

\* insecure, ca_cert_pem (ConflictsWith insecure) and the client pair of a
\* call: the combinations explored
TransportSpec(i, ca, pair) == [insecure |-> i, ca_cert_pem |-> ca, client_pair |-> pair]
TransportSpecs ==
    { TransportSpec(Null, Null, Null),
      TransportSpec({TRUE}, Null, Null),
      TransportSpec({FALSE}, Null, {"valid"}),
      TransportSpec(Null, {"pem"}, {"valid"}),
      TransportSpec(Null, {"garbage"}, Null),
      TransportSpec(Null, {"pem"}, {"invalid"}) }

IdleFetch ==
    [pc |-> "idle", spec |-> TransportSpec(Null, Null, Null),
     tr |-> DefaultAddr, sends |-> 0, used |-> {}, diag |-> Null]

TransportInit ==
    /\ transports = [a \in Addrs |-> IF a = DefaultAddr THEN InitialDefaultTransport
                                     ELSE NoTransport]
    /\ tlsConfigs = [a \in Addrs |-> ZeroTLSConfig]
    /\ fetch = [f \in Fetchers |-> IdleFetch]

\* (mutation) the call works on the shared transport itself: clonedTr := tr
CloneInPlace(ts, cs, f) == [addr |-> DefaultAddr, transports |-> ts, tlsConfigs |-> cs]

\* clonedTr := tr.Clone(): a new Transport at the call's own address, with its
\* own copy of the TLSClientConfig when the original has one
Clone(ts, cs, f) ==
    [ addr |-> f,
      transports |->
          [ts EXCEPT ![f] = [allocated |-> TRUE,
                             TLSClientConfig |-> IF IsNull(ts[DefaultAddr].TLSClientConfig)
                                                 THEN Null ELSE {f}]],
      tlsConfigs |->
          IF IsNull(ts[DefaultAddr].TLSClientConfig) THEN cs
          ELSE [cs EXCEPT ![f] = cs[Val(ts[DefaultAddr].TLSClientConfig)]] ]

\* the tls.Config clonedTr.TLSClientConfig points to
ConfigAddr(f) == Val(transports[fetch[f].tr].TLSClientConfig)

\* a call of read starts with the TLS attributes of its model
FetchStart ==
    /\ \E f \in Fetchers, s \in TransportSpecs :
          /\ fetch[f].pc = "idle"
          /\ fetch' = [fetch EXCEPT ![f] = [IdleFetch EXCEPT !.pc = "clone", !.spec = s]]
    /\ UNCHANGED <<transports, tlsConfigs, httpVars, fileVars, nanoVars>>

\* Other code of the process uses http.DefaultTransport for the first time
\* (http.Get of the file resource goes through it): the transport allocates
\* its TLSClientConfig
DefaultTransportFirstUse ==
    /\ IsNull(transports[DefaultAddr].TLSClientConfig)
    /\ transports' = [transports EXCEPT ![DefaultAddr].TLSClientConfig = {DefaultAddr}]
    /\ tlsConfigs' = [tlsConfigs EXCEPT ![DefaultAddr] = ZeroTLSConfig]
    /\ UNCHANGED <<fetch, httpVars, fileVars, nanoVars>>

\* tr.Clone(), and the allocation of a TLSClientConfig when the clone has none
CloneTransport ==
    /\ \E f \in Fetchers :
          /\ fetch[f].pc = "clone"
          /\ LET c == Clone(transports, tlsConfigs, f) IN
             /\ fetch' = [fetch EXCEPT ![f].pc = "insecure", ![f].tr = c.addr]
             /\ IF IsNull(c.transports[c.addr].TLSClientConfig)
                THEN /\ transports' = [c.transports EXCEPT ![c.addr].TLSClientConfig = {f}]
                     /\ tlsConfigs' = [c.tlsConfigs EXCEPT ![f] = ZeroTLSConfig]
                ELSE /\ transports' = c.transports
                     /\ tlsConfigs' = c.tlsConfigs
    /\ UNCHANGED <<httpVars, fileVars, nanoVars>>

\* clonedTr.TLSClientConfig.InsecureSkipVerify = model.Insecure.ValueBool()
SetInsecure ==
    /\ \E f \in Fetchers :
          /\ fetch[f].pc = "insecure"
          /\ fetch' = [fetch EXCEPT ![f].pc = "ca"]
          /\ tlsConfigs' =
                IF IsNull(fetch[f].spec.insecure) THEN tlsConfigs
                ELSE [tlsConfigs EXCEPT ![ConfigAddr(f)].InsecureSkipVerify =
                                              Val(fetch[f].spec.insecure)]
    /\ UNCHANGED <<transports, httpVars, fileVars, nanoVars>>

\* the ca_cert_pem pool: clonedTr.TLSClientConfig.RootCAs = caCertPool
SetRootCAs ==
    /\ \E f \in Fetchers :
          /\ fetch[f].pc = "ca"
          /\ LET ca == fetch[f].spec.ca_cert_pem IN
             IF ~IsNull(ca) /\ Val(ca) # "pem"
             THEN /\ fetch' = [fetch EXCEPT ![f].pc = "done",
                                            ![f].diag = {"Error configuring TLS client"}]
                  /\ UNCHANGED tlsConfigs
             ELSE /\ fetch' = [fetch EXCEPT ![f].pc = "cert"]
                  /\ tlsConfigs' =
                        IF IsNull(ca) THEN tlsConfigs
                        ELSE [tlsConfigs EXCEPT ![ConfigAddr(f)].RootCAs = ca]
    /\ UNCHANGED <<transports, httpVars, fileVars, nanoVars>>

\* the client key pair: clonedTr.TLSClientConfig.Certificates = {cert}
SetCertificates ==
    /\ \E f \in Fetchers :
          /\ fetch[f].pc = "cert"
          /\ LET pair == fetch[f].spec.client_pair IN
             IF ~IsNull(pair) /\ Val(pair) # "valid"
             THEN /\ fetch' = [fetch EXCEPT ![f].pc = "done",
                                            ![f].diag = {"error creating x509 key pair"}]
                  /\ UNCHANGED tlsConfigs
             ELSE /\ fetch' = [fetch EXCEPT ![f].pc = "send"]
                  /\ tlsConfigs' =
                        IF IsNull(pair) THEN tlsConfigs
                        ELSE [tlsConfigs EXCEPT ![ConfigAddr(f)].Certificates = pair]
    /\ UNCHANGED <<transports, httpVars, fileVars, nanoVars>>

\* retryClient.HTTPClient.Transport = clonedTr; one HTTP attempt of Do: the
\* connection is made with the tls.Config the transport points to at that time
Send ==
    /\ \E f \in Fetchers :
          /\ fetch[f].pc = "send"
          /\ fetch[f].sends < MaxSends
          /\ fetch' = [fetch EXCEPT ![f].sends = @ + 1,
                                    ![f].used = @ \cup {tlsConfigs[ConfigAddr(f)]}]
    /\ UNCHANGED <<transports, tlsConfigs, httpVars, fileVars, nanoVars>>

\* Do returns and read ends
FetchReturn ==
    /\ \E f \in Fetchers :
          /\ fetch[f].pc = "send"
          /\ fetch[f].sends >= 1
          /\ fetch' = [fetch EXCEPT ![f].pc = "done"]
    /\ UNCHANGED <<transports, tlsConfigs, httpVars, fileVars, nanoVars>>

NextTransport ==
    \/ DefaultTransportFirstUse
    \/ FetchStart
    \/ CloneTransport
    \/ SetInsecure
    \/ SetRootCAs
    \/ SetCertificates
    \/ Send
    \/ FetchReturn

-----------------------------------------------------------------------------
(* The file resource *)

FileSchema ==
    [configurable |-> {"url", "keepers"},
     requiresReplace |-> {"url"},
     requiresReplaceIfConfigured |-> {"keepers"}]

FileUrls == {"https://a.example/f", "https://b.example/f"}
KeepersValues == {Null, {"k1"}, {"k2"}}
FileContents == {"content 1", "content 2"}
UUIDs == {"uuid-1", "uuid-2"}

\* FileResourceModel as decoded from a configuration
FileConfigs ==
    {[url |-> {u}, keepers |-> k, content |-> Null, id |-> Null] :
        u \in FileUrls, k \in KeepersValues}

\* what http.Get and io.ReadAll of Create end with
GetOutcomes ==
    {[err |-> {"get"}, content |-> Null], [err |-> {"read"}, content |-> Null]} \cup
    {[err |-> Null, content |-> {c}] : c \in FileContents}

FileInit ==
    /\ fileState = Null
    /\ fileDiags = {}
    /\ fileOp = "none"
    /\ fileOps = 0
    /\ fileGets = 0
    /\ fileCreated = Null
    /\ filePlan = Null

\* (mutation) Update downloads the file again
UpdateDownloadsAgain(prior, cfg) ==
    [state |-> [prior EXCEPT !.content = {"content 2"}], gets |-> 1]

\* FileResource.Read and FileResource.Update: req.State.Get, resp.State.Set;
\* the state they store and the calls of http.Get they make
FileStateGetSet(prior, cfg) == [state |-> prior, gets |-> 0]

\* FileResource.Create on a resource that does not exist: one http.Get; an
\* error of the request or of reading the body ends the handler without state
FileCreate ==
    /\ IsNull(fileState)
    /\ fileOps < MaxFileOps
    /\ \E cfg \in FileConfigs, o \in GetOutcomes, uuid \in UUIDs :
          /\ fileGets' = fileGets + 1
          /\ IF ~IsNull(o.err)
             THEN /\ fileDiags' = {Diag("error",
                                        IF o.err = {"get"} THEN "Failed to fetch URL"
                                        ELSE "Failed to read response body", "err", Null)}
                  /\ UNCHANGED <<fileState, fileCreated>>
             ELSE /\ fileDiags' = {}
                  /\ fileState' = {[cfg EXCEPT !.id = {uuid}, !.content = o.content,
                                               !.url = {Val(cfg.url)}]}
                  /\ fileCreated' = fileState'
    /\ fileOp' = "Create"
    /\ fileOps' = fileOps + 1
    /\ UNCHANGED <<filePlan, httpVars, transportVars, nanoVars>>

FileRead ==
    /\ ~IsNull(fileState)
    /\ fileOps < MaxFileOps
    /\ LET r == FileStateGetSet(Val(fileState), Val(fileState)) IN
       /\ fileState' = {r.state}
       /\ fileGets' = fileGets + r.gets
    /\ fileDiags' = {}
    /\ fileOp' = "Read"
    /\ fileOps' = fileOps + 1
    /\ UNCHANGED <<fileCreated, filePlan, httpVars, transportVars, nanoVars>>

\* FileResource.Update, run for a configuration whose changes need no replacement
FileUpdate ==
    /\ ~IsNull(fileState)
    /\ fileOps < MaxFileOps
    /\ \E cfg \in FileConfigs :
          /\ PlannedAction(FileSchema, Val(fileState), cfg) = "update"
          /\ filePlan' = {cfg}
          /\ LET r == FileStateGetSet(Val(fileState), cfg) IN
             /\ fileState' = {r.state}
             /\ fileGets' = fileGets + r.gets
    /\ fileDiags' = {}
    /\ fileOp' = "Update"
    /\ fileOps' = fileOps + 1
    /\ UNCHANGED <<fileCreated, httpVars, transportVars, nanoVars>>

\* FileResource.Delete (a destroy, or the first half of a replacement): no
\* diagnostic, so the framework removes the resource from the state
FileDelete ==
    /\ ~IsNull(fileState)
    /\ fileOps < MaxFileOps
    /\ fileState' = Null
    /\ fileCreated' = Null
    /\ fileDiags' = {}
    /\ fileOp' = "Delete"
    /\ fileOps' = fileOps + 1
    /\ UNCHANGED <<fileGets, filePlan, httpVars, transportVars, nanoVars>>

NextFile ==
    \/ FileCreate
    \/ FileRead
    \/ FileUpdate
    \/ FileDelete

-----------------------------------------------------------------------------
(* The nanoid resource *)

\* Strings are sequences of code points. DEFAULT_ID_ALPHABET is
\* "0123456789ABCDEFGHIJKLMNOPQRSTUVWXYZ_abcdefghijklmnopqrstuvwxyz-"
DEFAULT_ID_ALPHABET ==
    [i \in 1..10 |-> 47 + i] \o [i \in 1..26 |-> 64 + i] \o <<95>> \o
    [i \in 1..26 |-> 96 + i] \o <<45>>
DEFAULT_ID_LENGTH == 21

\* int64validator.Between(1, 64) of length; the limit of ImportState
LengthMin == 1
LengthMax == 64
ImportMaxLength == 64

\* bytes of the UTF-8 encoding of a code point, and Go's len of a string
UTF8Width(c) == IF c < 128 THEN 1 ELSE IF c < 2048 THEN 2 ELSE IF c < 65536 THEN 3 ELSE 4
RECURSIVE len(_)
len(str) == IF str = <<>> THEN 0 ELSE UTF8Width(Head(str)) + len(Tail(str))

NanoSchema ==
    [configurable |-> {"alphabet", "length", "keepers"},
     requiresReplace |-> {"alphabet", "length"},
     requiresReplaceIfConfigured |-> {"keepers"}]

\* alphabet: absent, the default written out, "abc", and the two-character "é€"
AlphabetValues == {Null, {DEFAULT_ID_ALPHABET}, {<<97, 98, 99>>}, {<<233, 8364>>}}
LengthValues == {Null} \cup {{n} : n \in LengthMin..LengthMax}

\* NanoIdResourceModel as decoded from a configuration
NanoConfigs ==
    {[alphabet |-> a, length |-> l, keepers |-> k, id |-> Null] :
        a \in AlphabetValues, l \in LengthValues, k \in KeepersValues}

\* the changed configurations explored for an existing resource: other
\* keepers, another length
NanoReconfigurations(st) ==
    {[st EXCEPT !.id = Null, !.keepers = k] : k \in KeepersValues}
    \cup {[st EXCEPT !.id = Null, !.length = {l}] : l \in {LengthMin, LengthMax}}

\* the planned values of a configuration: the schema's defaults for what is absent
NanoPlanned(cfg) ==
    [cfg EXCEPT !.alphabet = IF IsNull(@) THEN {DEFAULT_ID_ALPHABET} ELSE @,
                !.length = IF IsNull(@) THEN {DEFAULT_ID_LENGTH} ELSE @]

\* the random source of gonanoid.Generate: it fails, or it yields the indices
\* first + stride * i into the alphabet
RandomSources ==
    {[ok |-> FALSE, first |-> 0, stride |-> 0]} \cup
    {[ok |-> TRUE, first |-> x[1], stride |-> x[2]] : x \in {<<0, 1>>, <<5, 7>>, <<3, 0>>}}

\* (mutation) the id is generated with the default length
GenerateDefaultLength(alphabet, size, rnd) ==
    [err |-> Null,
     id |-> [i \in 1..DEFAULT_ID_LENGTH |->
                alphabet[((rnd.first + rnd.stride * i) % Len(alphabet)) + 1]]]

\* gonanoid.Generate(alphabet, size): size characters drawn from the alphabet
Generate(alphabet, size, rnd) ==
    IF Len(alphabet) = 0 \/ Len(alphabet) > 255 THEN [err |-> {"alphabet"}, id |-> <<>>]
    ELSE IF size <= 0 THEN [err |-> {"size"}, id |-> <<>>]
    ELSE IF ~rnd.ok THEN [err |-> {"random"}, id |-> <<>>]
    ELSE [err |-> Null,
          id |-> [i \in 1..size |->
                     alphabet[((rnd.first + rnd.stride * i) % Len(alphabet)) + 1]]]

\* (mutation) ImportState takes the default length instead of the id's
ImportStateDefaultLength(id) ==
    [diags |-> {},
     state |-> {[id |-> {id}, length |-> {DEFAULT_ID_LENGTH}, keepers |-> Null,
                 alphabet |-> {DEFAULT_ID_ALPHABET}]}]

\* NanoIdResource.ImportState(req.ID): its diagnostics and the state it sets
ImportState(id) ==
    LET length == len(id) IN
    IF length > ImportMaxLength
    THEN [diags |-> {Diag("error", "Invalid id", "length", Null)}, state |-> Null]
    ELSE [diags |-> {},
          state |-> {[id |-> {id}, length |-> {length}, keepers |-> Null,
                      alphabet |-> {DEFAULT_ID_ALPHABET}]}]

NanoInit ==
    /\ nanoState = Null
    /\ nanoImported = Null
    /\ nanoDiags = {}
    /\ nanoOp = "none"
    /\ nanoOps = 0
    /\ nanoConfig = Null

\* NanoIdResource.Create on a resource that does not exist
NanoCreate ==
    /\ IsNull(nanoState)
    /\ nanoOps < MaxNanoOps
    /\ \E cfg \in NanoConfigs, rnd \in RandomSources :
          LET alphabet == IF IsNull(cfg.alphabet) THEN DEFAULT_ID_ALPHABET ELSE Val(cfg.alphabet)
              length == IF IsNull(cfg.length) THEN DEFAULT_ID_LENGTH ELSE Val(cfg.length)
              g == Generate(alphabet, length, rnd)
          IN IF ~IsNull(g.err)
             THEN /\ nanoDiags' = {Diag("error", "Failed to generate id", "err", g.err)}
                  /\ UNCHANGED <<nanoState, nanoConfig>>
             ELSE /\ nanoDiags' = {}
                  /\ nanoState' = {[cfg EXCEPT !.id = {g.id}, !.alphabet = {alphabet},
                                               !.length = {length}]}
                  /\ nanoConfig' = {cfg}
    /\ nanoImported' = Null
    /\ nanoOp' = "Create"
    /\ nanoOps' = nanoOps + 1
    /\ UNCHANGED <<httpVars, transportVars, fileVars>>

\* NanoIdResource.Read: req.State.Get, resp.State.Set
NanoRead ==
    /\ ~IsNull(nanoState)
    /\ nanoOps < MaxNanoOps
    /\ nanoState' = nanoState
    /\ nanoDiags' = {}
    /\ nanoOp' = "Read"
    /\ nanoOps' = nanoOps + 1
    /\ UNCHANGED <<nanoImported, nanoConfig, httpVars, transportVars, fileVars>>

\* NanoIdResource.Update, run for a configuration whose changes need no
\* replacement: req.State.Get, resp.State.Set
NanoUpdate ==
    /\ ~IsNull(nanoState)
    /\ nanoOps < MaxNanoOps
    /\ \E cfg \in NanoReconfigurations(Val(nanoState)) :
          PlannedAction(NanoSchema, Val(nanoState), NanoPlanned(cfg)) = "update"
    /\ nanoState' = nanoState
    /\ nanoDiags' = {}
    /\ nanoOp' = "Update"
    /\ nanoOps' = nanoOps + 1
    /\ UNCHANGED <<nanoImported, nanoConfig, httpVars, transportVars, fileVars>>

\* NanoIdResource.Delete: no diagnostic, the framework removes the resource
NanoDelete ==
    /\ ~IsNull(nanoState)
    /\ nanoOps < MaxNanoOps
    /\ nanoState' = Null
    /\ nanoImported' = Null
    /\ nanoConfig' = Null
    /\ nanoDiags' = {}
    /\ nanoOp' = "Delete"
    /\ nanoOps' = nanoOps + 1
    /\ UNCHANGED <<httpVars, transportVars, fileVars>>

\* NanoIdResource.ImportState called with the id of the created resource
NanoImportState ==
    /\ ~IsNull(nanoState)
    /\ nanoOps < MaxNanoOps
    /\ LET r == ImportState(Val(Val(nanoState).id)) IN
       /\ nanoDiags' = r.diags
       /\ nanoImported' = r.state
    /\ nanoOp' = "ImportState"
    /\ nanoOps' = nanoOps + 1
    /\ UNCHANGED <<nanoState, nanoConfig, httpVars, transportVars, fileVars>>

NextNano ==
    \/ NanoCreate
    \/ NanoRead
    \/ NanoUpdate
    \/ NanoDelete
    \/ NanoImportState

-----------------------------------------------------------------------------
(* Specifications *)

Init ==
    /\ HttpInit
    /\ TransportInit
    /\ FileInit
    /\ NanoInit

\* the http resource: one handler at a time, with its retrying fetch
Spec == Init /\ [][Next]_vars

\* the http resource again, for configurations that vary the request
SpecRequest == Init /\ [][NextRequest]_vars

\* concurrent calls of modelV0.read sharing http.DefaultTransport
SpecTransport == Init /\ [][NextTransport]_vars

\* the lifecycle of one file resource
SpecFile == Init /\ [][NextFile]_vars

\* the lifecycle of one nanoid resource
SpecNano == Init /\ [][NextNano]_vars

-----------------------------------------------------------------------------
(* Properties *)

Done == pc = "done"
Fatal == HasError(diags)
NoSuccessCodes == model.success_status_codes = {}
DoDiagnostics == {d \in diags : d.summary = "Error making request"}

\* every attempt so far received a response, and the statuses were all in S
AllResponsesIn(S) == attempt >= 1 /\ ~hist.transportErr /\ hist.statuses \subseteq S
\* every attempt so far ended in a transport error
AllTransportErrors == attempt >= 1 /\ hist.statuses = {}

\* retry.attempts as configured: N, with an absent block or attribute as 0
N ==
    IF IsNull(model0.retry) THEN 0
    ELSE IF IsNull(Val(model0.retry).attempts) THEN 0
    ELSE Val(Val(model0.retry).attempts)

\* C1: with retry.attempts = N (an absent block or attribute counting as 0),
\* an empty success_status_codes and a context that is not cancelled, a fetch
\* all of whose attempts received a 503 response has made exactly N+1
\* attempts, ends with an error diagnostic and has changed nothing in the model.
C1_Always503ExhaustsRetries ==
    (Done /\ AllResponsesIn({503}) /\ NoSuccessCodes /\ ~ctxDone)
        => /\ attempt = N + 1
           /\ netCalls = N + 1
           /\ Fatal
           /\ model = model0

C1_Witness ==
    /\ Done /\ AllResponsesIn({503}) /\ NoSuccessCodes /\ ~ctxDone
    /\ N = MaxAttempts
    /\ attempt = MaxAttempts + 1
    /\ Fatal

ReadErrors == {d \in diags : d.summary = "Error reading response body"}
LastStatus == Val(resp).status

HasSuccessCodes == model.success_status_codes # {}
AllResponsesOutsideList ==
    /\ HasSuccessCodes
    /\ attempt >= 1
    /\ ~hist.transportErr
    /\ hist.statuses \cap model.success_status_codes = {}
UnexpectedStatus == {"unexpected HTTP status"}

\* C3: with a non-empty success_status_codes S, retry.attempts = N and a
\* context that is not cancelled, as long as every attempt received a response
\* with a status outside S (200 included) the policy answers "retry" with the
\* error "unexpected HTTP status"; Do never returns such a response, and the
\* fetch ends after exactly N+1 attempts with an error diagnostic whose cause is
\* "unexpected HTTP status".
C3_OutsideListRetriesUntilExhausted ==
    (AllResponsesOutsideList /\ ~ctxDone)
        => /\ pc = "check" =>
                makeCustomRetryPolicy(model.success_status_codes, ctxDone, resp, doErr)
                    = Decision(TRUE, UnexpectedStatus)
           /\ pc \in {"backoff", "do", "done"} => shouldRetry /\ checkErr = UnexpectedStatus
           /\ pc # "body"
           /\ Done => /\ attempt = N + 1
                      /\ netCalls = N + 1
                      /\ \E d \in diags : d.severity = "error" /\ d.cause = UnexpectedStatus
                      /\ model = model0

C3_Witness ==
    /\ Done /\ AllResponsesOutsideList /\ ~ctxDone
    /\ model.success_status_codes = {201}
    /\ hist.statuses = {200}
    /\ N = MaxAttempts
    /\ attempt = MaxAttempts + 1
    /\ \E d \in diags : d.severity = "error" /\ d.cause = UnexpectedStatus

\* C4: with a non-empty success_status_codes S and a context that is not
\* cancelled, the CheckRetry of an attempt whose response status is in S (5xx
\* statuses of S included) answers "stop" without error and Do returns that
\* response; a further attempt is only ever pending after an attempt whose
\* status was not in S; and the fetch then ends, unless reading the body
\* fails, without error diagnostic and with status_code = that status.
C4_StatusInListStopsWithSuccess ==
    /\ [][ ( /\ pc = "check" /\ pc' # "check"
             /\ HasSuccessCodes /\ ~ctxDone
             /\ ~IsNull(resp) /\ LastStatus \in model.success_status_codes )
           => ( /\ pc' = "body"
                /\ ~shouldRetry' /\ IsNull(checkErr')
                /\ attempt' = attempt /\ diags' = diags ) ]_vars
    /\ []( ( /\ HasSuccessCodes /\ attempt >= 1 /\ pc \in {"backoff", "do"}
             /\ ~IsNull(resp) )
           => LastStatus \notin model.success_status_codes )
    /\ []( ( /\ Done /\ HasSuccessCodes /\ ~ctxDone
             /\ ~IsNull(resp) /\ LastStatus \in model.success_status_codes )
           => ( /\ DoDiagnostics = {}
                /\ ReadErrors = {} => ~Fatal /\ model.status_code = {LastStatus} ) )

C4_Witness ==
    /\ Done /\ ~ctxDone
    /\ model.success_status_codes = {200, 503}
    /\ attempt = 2
    /\ hist.statuses = {501, 503}
    /\ LastStatus = 503
    /\ ~Fatal
    /\ model.status_code = {503}

SameFetch == ops' = ops
Canceled == {CanceledErr}

\* C5: whenever CheckRetry is evaluated with a cancelled context, its answer is
\* "stop" with the context's error, whatever the response, the transport error
\* and success_status_codes; once the context is cancelled the fetch sends no
\* further request and computes no further retry delay, a pending backoff
\* sleep can end at once, Do never returns a response, and the step that ends
\* Do adds an error diagnostic reporting the cancellation.
C5_CancellationAlwaysWins ==
    /\ []( (pc = "check" /\ ctxDone)
           => makeCustomRetryPolicy(model.success_status_codes, ctxDone, resp, doErr)
                  = Decision(FALSE, Canceled) )
    /\ []( (pc = "backoff" /\ ctxDone) => ENABLED BackoffCancelled )
    /\ [][ (ctxDone /\ SameFetch /\ pc \in {"do", "check", "backoff"})
           => ( /\ netCalls' = netCalls
                /\ wait' = wait
                /\ pc' # "body"
                /\ pc' = "done" =>
                      /\ \E d \in diags' \ diags : d.severity = "error" /\ d.cause = Canceled
                      /\ model' = model
                /\ (pc = "check" /\ pc' # pc) => pc' = "done" ) ]_vars

C5_Witness ==
    /\ Done /\ ctxDone
    /\ N = MaxAttempts
    /\ attempt = 1
    /\ netCalls = 1
    /\ ~IsNull(wait)
    /\ hist.statuses = {503}
    /\ \E d \in diags : d.severity = "error" /\ d.cause = Canceled

\* C6: with a context that is not cancelled, CheckRetry answers "retry" without
\* error for every attempt that ended in a transport error, whatever the
\* baseline answers for that error (it does not retry a redirect loop) and
\* whatever success_status_codes holds; a fetch all of whose attempts ended in
\* transport errors makes N+1 attempts and ends with the error diagnostic
\* "Error making request" reporting the last transport error.
C6_TransportErrorsAreRetried ==
    /\ (pc = "check" /\ ~ctxDone /\ ~IsNull(doErr))
           => makeCustomRetryPolicy(model.success_status_codes, ctxDone, resp, doErr)
                  = Decision(TRUE, Null)
    /\ (Done /\ AllTransportErrors /\ ~ctxDone)
           => /\ attempt = N + 1
              /\ shouldRetry /\ IsNull(checkErr)
              /\ \E d \in DoDiagnostics : d.severity = "error" /\ d.cause = doErr
              /\ model = model0

C6_Witness ==
    /\ Done /\ AllTransportErrors /\ ~ctxDone
    /\ doErr = {"redirects"}
    /\ HasSuccessCodes
    /\ N = MaxAttempts
    /\ attempt = MaxAttempts + 1
    /\ \E d \in DoDiagnostics : d.severity = "error" /\ d.cause = doErr

RetryAbsent == IsNull(model0.retry)
TLSDiagnostics ==
    {d \in diags : d.summary \in {"Error configuring TLS client", "error creating x509 key pair"}}

\* C7: whatever the attempts' outcomes, a fetch never makes more than
\* retry.attempts + 1 attempts; without a retry block it never sleeps for a
\* retry and, once it has reached Do, it has made exactly one attempt.
C7_AttemptsBounded ==
    /\ attempt <= N + 1
    /\ netCalls <= attempt
    /\ RetryAbsent => /\ pc # "backoff"
                      /\ attempt <= 1
                      /\ pc \in {"check", "body"} => attempt = 1
                      /\ (Done /\ op # "none" /\ TLSDiagnostics = {}) => attempt = 1

C7_Witness ==
    /\ Done /\ RetryAbsent
    /\ attempt = 1
    /\ hist.statuses = {503}
    /\ Fatal

BadCA == ~IsNull(model0.ca_cert_pem) /\ model0.ca_cert_pem # {"pem"}
BadKeyPair == ~IsNull(model0.client_pair) /\ model0.client_pair # {"valid"}

\* C8: a fetch whose ca_cert_pem holds no parsable certificate, or whose client
\* certificate and key are both present and form no valid key pair, has ended
\* at once with an error diagnostic of the TLS configuration, without any
\* HTTP attempt and with the model (outputs included) as it was.
C8_BadTLSMaterialStopsBeforeAnyRequest ==
    (op # "none" /\ (BadCA \/ BadKeyPair))
        => /\ Done
           /\ \E d \in TLSDiagnostics : d.severity = "error"
           /\ attempt = 0
           /\ netCalls = 0
           /\ model = model0

C8_Witness ==
    /\ Done
    /\ model0.ca_cert_pem = {"garbage"}
    /\ model0.client_pair = {"invalid"}
    /\ attempt = 0
    /\ Fatal

\* C9 (as claimed): after a fetch run by Create or Update, status_code is set
\* in the resulting model if and only if the fetch produced no error
\* diagnostic (a warning does not count).
C9_StatusCodeIffNoFatal ==
    (Done /\ op \in {"Create", "Update"})
        => (~IsNull(model.status_code) <=> ~Fatal)

EffectiveMinDelay ==
    IF RetryAbsent \/ IsNull(Val(model0.retry).min_delay_ms)
    THEN defaultRetryWaitMin ELSE Val(Val(model0.retry).min_delay_ms)
EffectiveMaxDelay ==
    IF RetryAbsent \/ IsNull(Val(model0.retry).max_delay_ms)
    THEN defaultRetryWaitMax ELSE Val(Val(model0.retry).max_delay_ms)

\* C10 (as claimed): for every accepted retry configuration the delay before
\* each retry lies between the effective minimum and the effective maximum
\* delay (the configured one, else the client's default), and within a fetch
\* the delay of a retry is not smaller than the delay of the retry before it.
C10_DelayWithinConfiguredBounds ==
    /\ []( ~IsNull(wait)
           => (EffectiveMinDelay <= Val(wait) /\ Val(wait) <= EffectiveMaxDelay) )
    /\ [][ (SameFetch /\ ~IsNull(wait) /\ ~IsNull(wait')) => Val(wait') >= Val(wait) ]_vars

-----------------------------------------------------------------------------
(* Properties of the transport clone *)

\* the TLS settings the attributes of a call ask for: the zero tls.Config with
\* InsecureSkipVerify, RootCAs and Certificates set from the non-null attributes
ExpectedTLS(s) ==
    [InsecureSkipVerify |-> IF IsNull(s.insecure) THEN FALSE ELSE Val(s.insecure),
     RootCAs |-> s.ca_cert_pem,
     Certificates |-> s.client_pair]

-----------------------------------------------------------------------------
(* Properties of the file resource *)

FileHandlerRuns(name) == fileOps' # fileOps /\ fileOp' = name
Downloaded(st) == [id |-> st.id, url |-> st.url, content |-> st.content]

\* C12: the file resource downloads once: every Create calls http.Get exactly
\* once (an error ends it, nothing is retried); every Read and every Update
\* calls it not at all and leaves id, url and content of the persisted state
\* as they were; and as long as the resource exists they are the values that
\* Create stored.
C12_FileDownloadedOnce ==
    /\ [][ FileHandlerRuns("Create") => fileGets' = fileGets + 1 ]_vars
    /\ [][ (FileHandlerRuns("Read") \/ FileHandlerRuns("Update"))
           => /\ fileGets' = fileGets
              /\ ~IsNull(fileState')
              /\ Downloaded(Val(fileState')) = Downloaded(Val(fileState)) ]_vars
    /\ [](~IsNull(fileState)
           => /\ ~IsNull(fileCreated)
              /\ Downloaded(Val(fileState)) = Downloaded(Val(fileCreated)))

C12_Witness ==
    /\ fileOp = "Update"
    /\ fileOps >= 3
    /\ fileGets = 1
    /\ ~IsNull(fileState)
    /\ Val(fileState).content = {"content 1"}
    /\ Val(fileState).keepers = {"k1"}
    /\ filePlan # Null /\ Val(filePlan).keepers = Null
    /\ fileState = fileCreated

-----------------------------------------------------------------------------
(* Properties of the nanoid resource *)

NanoCreated == nanoOp = "Create" /\ nanoDiags = {}
ConfiguredLength == Val(nanoConfig).length
ConfiguredAlphabet == Val(nanoConfig).alphabet
WithoutKeepers == IsNull(Val(nanoConfig).keepers)
WithDefaultAlphabet == IsNull(ConfiguredAlphabet) \/ ConfiguredAlphabet = {DEFAULT_ID_ALPHABET}

\* C13: for a nanoid created without keepers and with the default alphabet
\* (length L configured in 1..64, or absent and then 21), ImportState called
\* with the created id adds no diagnostic and yields a state equal to the
\* state Create stored: the same id, length = L, alphabet = the default
\* alphabet, keepers null.
C13_ImportEqualsCreatedState ==
    (nanoOp = "ImportState" /\ WithoutKeepers /\ WithDefaultAlphabet)
        => /\ nanoDiags = {}
           /\ nanoImported = nanoState
           /\ Val(nanoImported).id = Val(nanoState).id
           /\ Val(nanoImported).length =
                 (IF IsNull(ConfiguredLength) THEN {21} ELSE ConfiguredLength)
           /\ Val(nanoImported).alphabet = {DEFAULT_ID_ALPHABET}
           /\ Val(nanoImported).keepers = Null

C13_Witness ==
    /\ nanoOp = "ImportState" /\ WithoutKeepers
    /\ ConfiguredAlphabet = Null
    /\ ConfiguredLength = {64}
    /\ nanoImported = nanoState
    /\ Val(nanoImported).length = {64}
    /\ Len(Val(Val(nanoImported).id)) = 64

\* C14: a successful nanoid Create stores length = the configured length (21
\* when none is configured), alphabet = the configured alphabet (the
\* 64-character default when none is configured), and an id of exactly as
\* many characters as the stored length, all of them characters of the stored
\* alphabet.
C14_CreateStoresLengthAlphabetId ==
    NanoCreated
        => /\ ~IsNull(nanoState)
           /\ Val(nanoState).length =
                 (IF IsNull(ConfiguredLength) THEN {21} ELSE ConfiguredLength)
           /\ Val(nanoState).alphabet =
                 (IF IsNull(ConfiguredAlphabet) THEN {DEFAULT_ID_ALPHABET} ELSE ConfiguredAlphabet)
           /\ Len(DEFAULT_ID_ALPHABET) = 64
           /\ Len(Val(Val(nanoState).id)) = Val(Val(nanoState).length)
           /\ \A i \in 1..Len(Val(Val(nanoState).id)) :
                 \E j \in 1..Len(Val(Val(nanoState).alphabet)) :
                    Val(Val(nanoState).id)[i] = Val(Val(nanoState).alphabet)[j]

C14_Witness ==
    /\ NanoCreated
    /\ ConfiguredLength = {11}
    /\ ConfiguredAlphabet = {<<97, 98, 99>>}
    /\ Val(nanoState).length = {11}
    /\ Len(Val(Val(nanoState).id)) = 11
    /\ Val(Val(nanoState).id)[1] # Val(Val(nanoState).id)[2]

-----------------------------------------------------------------------------
(* Properties of the http resource's request and lifecycle *)

UpdateStarts == ops' # ops /\ op' = "Update"

\* C15 (as claimed): the url of a managed resource is immutable: neither the
\* http resource nor the file resource ever runs an in-place Update for a
\* configuration whose url differs from the url of the resource's state; such
\* a change is always a replacement (Delete, then Create).
C15_UrlChangeNeverUpdatesInPlace ==
    /\ [][ UpdateStarts => Val(plan').url = Val(state).url ]_vars
    /\ [][ FileHandlerRuns("Update") => Val(filePlan').url = Val(fileState).url ]_vars

RequestBuilt == ~IsNull(request)
Entries == model0.request_headers
HostNames == {"Host", "HOST", "host"}
Applied(h) ==
    \E e \in Val(request).header : ToLower(e.name) = ToLower(h.name) /\ e.value = h.value
NoTwoNamesEqualIgnoringCase ==
    \A g, h \in Entries : g # h => ToLower(g.name) # ToLower(h.name)

\* C16 (as claimed): in the request read has built, every entry of
\* request_headers is applied; for every entry whose name is "host" in any
\* spelling the request's host is that entry's value, while the request's url
\* (the connection target) is the configured url; and when no entry has such a
\* name the request's host is the host of the url.
C16_EveryHeaderApplied ==
    RequestBuilt
        => /\ \A h \in Entries : Applied(h)
           /\ \A h \in Entries : h.name \in HostNames => Val(request).host = Val(h.value)
           /\ Val(request).url = Val(model0.url)
           /\ (\A h \in Entries : h.name \notin HostNames)
                 => Val(request).host = Val(URLHost(Val(model0.url)))

\* C16 (amended): the same for a request_headers map in which no two names
\* are equal ignoring case; of entries whose names are equal ignoring case
\* only the one the loop visits last is in the request (and, for "host",
\* sets the host), and the order of the visits is unspecified.
C16_HeadersAppliedWithoutCaseCollision ==
    /\ (RequestBuilt /\ NoTwoNamesEqualIgnoringCase)
          => /\ \A h \in Entries : Applied(h)
             /\ \A h \in Entries : h.name \in HostNames => Val(request).host = Val(h.value)
    /\ RequestBuilt
          => /\ Val(request).url = Val(model0.url)
             /\ \A e \in Val(request).header : \E h \in Entries : Applied(h) /\ h.value = e.value
             /\ (\A h \in Entries : h.name \notin HostNames)
                   => Val(request).host = Val(URLHost(Val(model0.url)))
             /\ (\E h \in Entries : h.name \in HostNames)
                   => \E h \in Entries : h.name \in HostNames /\ Val(request).host = Val(h.value)

C16_Witness ==
    /\ Done /\ netCalls = 1
    /\ RequestBuilt
    /\ Entries = {Header("HOST", {"v.example"})}
    /\ Val(request).host = "v.example"
    /\ Val(request).url = "https://b.example/x"
    /\ Val(request).header = {Header("Host", {"v.example"})}

RequestAttributes == HttpSchema.configurable \ {"keepers"}

\* C17 (as claimed): a successful in-place Update of the http resource has
\* made its request for the url of the planned configuration and has stored
\* a state whose request attributes (url, method, request_headers,
\* request_body, retry, TLS material, success_status_codes) equal the planned
\* ones and whose id is the planned url.
C17_UpdateFetchesWithPlannedValues ==
    (Done /\ op = "Update" /\ ~Fatal)
        => /\ \A a \in RequestAttributes : Val(state)[a] = Val(plan)[a]
           /\ Val(request).url = Val(Val(plan).url)
           /\ Val(state).id = Val(plan).url

DecodeOrBuildErrors ==
    {d \in diags : d.severity = "error"
                   /\ d.summary \in {"Value Conversion Error", "Error creating request"}}

\* C18 (as claimed): a fetch in which decoding the retry block, the
\* success_status_codes list or a request_headers value, or building the
\* request, has recorded an error diagnostic makes no HTTP attempt.
C18_NoAttemptAfterDecodeError ==
    (op \in {"Create", "Update"} /\ DecodeOrBuildErrors # {})
        => attempt = 0 /\ netCalls = 0

HandlerEnds == pc' = "done" /\ (pc # "done" \/ ops' # ops)

\* C19 (as claimed): a Create or Update of the http resource whose fetch ends
\* with an error diagnostic leaves the persisted state as it was: nothing is
\* stored by a failed Create, and the prior state stays after a failed Update.
C19_FailedHandlerLeavesStateUnchanged ==
    [][ (HandlerEnds /\ op' \in {"Create", "Update"} /\ HasError(diags'))
        => state' = state ]_vars

====
